---- MODULE Spec2Model ----
(***************************************************************************)
(* The static world map of the game server (class Map): the flat tile      *)
(* dataset, the coordinate codec, the collision queries, the door linker   *)
(* and the tile decoding helpers.                                          *)
(*                                                                         *)
(* Conventions of the model                                                *)
(*   - a tile (number | number[]) is a record [isArray, id, ids]; the      *)
(*     scalar 0 stands for every falsy cell (0, undefined, null);          *)
(*   - an optional value (T | undefined) is a sequence: <<>> or <<v>>;     *)
(*   - a string that is unset (undefined or '') is "", a number that is    *)
(*     unset (undefined or 0) is 0: the code only tests them with ! / ||;  *)
(*   - JavaScript's 32-bit bitwise operators are modelled on words of      *)
(*     WordBits bits, the three flip flags being the three highest bits.   *)
(***************************************************************************)
EXTENDS Integers, Sequences, FiniteSets, TLC

VARIABLES
    width,        \* map.width
    height,       \* map.height
    data,         \* map.data: index -> tile
    collisions,   \* map.collisions: the blocked tile indexes
    entities,     \* map.entities: index -> entity key
    plateau,      \* map.plateau: index -> level
    objects,      \* map.objects: the object tile identifiers
    cursors,      \* map.cursors: tile identifier -> cursor name
    rawDoors,     \* map.areas.doors: the raw door entries, in list order
    doors,        \* this.doors: tile index -> ProcessedDoor
    pc,           \* "construct" before the constructor has run, "ready" after
    call,         \* the last query made: its name and arguments
    ret           \* what that query returned

vars == <<width, height, data, collisions, entities, plateau, objects, cursors,
          rawDoors, doors, pc, call, ret>>

dataset == <<width, height, data, collisions, entities, plateau, objects, cursors,
             rawDoors>>

----------------------------------------------------------------------------
(* Bounds of the model *)

\* the longest raw door list
MaxDoors == 2
\* the widest and the tallest map of the coordinate specification
MaxWidth == 4
MaxHeight == 3
\* the deepest stack of tile identifiers in one cell
MaxStack == 2
\* the width of a machine word in the model (32 in the program)
WordBits == 7

----------------------------------------------------------------------------
(* Values *)

Undefined == <<>>

Some(v) == <<v>>

Scalar(n) == [isArray |-> FALSE, id |-> n, ids |-> <<>>]

Stack(s) == [isArray |-> TRUE, id |-> 0, ids |-> s]

\* !data : a number is falsy when it is 0 (or absent), an array never is
Falsy(tile) == ~tile.isArray /\ tile.id = 0

NoCall == [op |-> "none"]

SeqsUpTo(S, n) == UNION {[1..k -> S] : k \in 0..n}

----------------------------------------------------------------------------
(* Coordinate codec *)

coordToIndex(x, y) == y * width + x

\* the row is taken by the height of the map
indexToCoordMutant(index) == [x |-> index % width, y |-> index \div height]

indexToCoord(index) == [x |-> index % width, y |-> index \div width]

----------------------------------------------------------------------------
(* Door linker *)

\* the last match is taken
findDestinationLast(list, dest) ==
    LET hits == {k \in 1..Len(list) : list[k].id = dest}
    IN  IF hits = {} THEN Undefined
        ELSE Some(list[CHOOSE k \in hits : \A j \in hits : k >= j])

\* _.find(doorsClone, cloneDoor => door.destination === cloneDoor.id):
\* the first entry of the list whose id is the destination, or undefined
findDestination(list, dest) ==
    LET hits == {k \in 1..Len(list) : list[k].id = dest}
    IN  IF hits = {} THEN Undefined
        ELSE Some(list[CHOOSE k \in hits : \A j \in hits : k <= j])

\* the ProcessedDoor assigned at lines 107-114
processedDoor(door, destination) ==
    [x           |-> destination.x,
     y           |-> destination.y,
     orientation |-> IF destination.orientation = "" THEN "d"
                     ELSE destination.orientation,
     quest       |-> door.quest,
     achievement |-> door.achievement,
     stage       |-> door.stage]

\* one call of the callback of _.each(map.areas.doors, ...)
linkDoor(table, door, clone) ==
    IF door.destination = 0 THEN table
    ELSE LET index == coordToIndex(door.x, door.y)
             destination == findDestination(clone, door.destination)
         IN  IF destination = Undefined THEN table
             ELSE [i \in DOMAIN table \cup {index} |->
                      IF i = index THEN processedDoor(door, destination[1])
                      ELSE table[i]]

RECURSIVE linkFrom(_, _, _, _)
linkFrom(table, list, clone, k) ==
    IF k > Len(list) THEN table
    ELSE linkFrom(linkDoor(table, list[k], clone), list, clone, k + 1)

\* the linker stops at the first entry it cannot resolve
RECURSIVE linkFromAbort(_, _, _, _)
linkFromAbort(table, list, clone, k) ==
    IF k > Len(list) THEN table
    ELSE IF /\ list[k].destination # 0
            /\ findDestination(clone, list[k].destination) = Undefined
         THEN table
         ELSE linkFromAbort(linkDoor(table, list[k], clone), list, clone, k + 1)

loadDoorsAbort(list) == linkFromAbort(<<>>, list, list, 1)

\* this.doors after loadDoors() over the raw list
loadDoors(list) == linkFrom(<<>>, list, list, 1)

isDoor(x, y) == coordToIndex(x, y) \in DOMAIN doors

getDoor(x, y) ==
    IF coordToIndex(x, y) \in DOMAIN doors THEN Some(doors[coordToIndex(x, y)])
    ELSE Undefined

\* new Map(world): loadDoors() builds the door table
Construct ==
    /\ pc = "construct"
    /\ doors' = loadDoors(rawDoors)
    /\ pc' = "ready"
    /\ UNCHANGED <<dataset, call, ret>>

----------------------------------------------------------------------------
(* The door specification: any raw door list on a map two tiles wide *)

DoorIds == {1, 2}

\* 0 is the destination of an entry that declares none (the field is
\* undefined, or the unset object reference 0): !door.destination
DoorDestinations == {0, 1, 2}

\* the map is two tiles wide: x = 2 lies outside it
DoorXs == {0, 2}

DoorYs == {0, 1}

\* an entry sets its orientation or not, and either sets none of quest,
\* achievement and stage or sets them all
RawDoor(id, x, y, destination, orientation, gated) ==
    [id |-> id, x |-> x, y |-> y, destination |-> destination,
     orientation |-> orientation,
     quest       |-> IF gated THEN "q" ELSE "",
     achievement |-> IF gated THEN "a" ELSE "",
     stage       |-> IF gated THEN 1 ELSE 0]

RawDoors ==
    {RawDoor(id, x, y, destination, orientation, gated) :
        id \in DoorIds, x \in DoorXs, y \in DoorYs,
        destination \in DoorDestinations, orientation \in {"", "u"},
        gated \in BOOLEAN}

InitDoors ==
    /\ width = 2
    /\ height = 2
    /\ data = <<>>
    /\ collisions = {}
    /\ entities = <<>>
    /\ plateau = <<>>
    /\ objects = {}
    /\ cursors = <<>>
    /\ \E n \in 0..MaxDoors : rawDoors \in [1..n -> RawDoors]
    /\ doors = <<>>
    /\ pc = "construct"
    /\ call = NoCall
    /\ ret = Undefined

NextDoors == Construct

SpecDoors == InitDoors /\ [][NextDoors]_vars

----------------------------------------------------------------------------
(* Claims about the door linker, under SpecDoors *)

\* entry k declares a destination (0 is the unset reference) that is the
\* identifier of some entry of the list
Linked(k) ==
    /\ rawDoors[k].destination # 0
    /\ \E j \in 1..Len(rawDoors) : rawDoors[j].id = rawDoors[k].destination

\* the first entry, in list order, whose identifier entry k names
FirstPartner(k) ==
    rawDoors[CHOOSE j \in 1..Len(rawDoors) :
                /\ rawDoors[j].id = rawDoors[k].destination
                /\ \A i \in 1..(j - 1) : rawDoors[i].id # rawDoors[k].destination]

\* the record the claim describes for entry k
ExpectedDoor(k) ==
    [x           |-> FirstPartner(k).x,
     y           |-> FirstPartner(k).y,
     orientation |-> IF FirstPartner(k).orientation = "" THEN "d"
                     ELSE FirstPartner(k).orientation,
     quest       |-> rawDoors[k].quest,
     achievement |-> rawDoors[k].achievement,
     stage       |-> rawDoors[k].stage]

TileOf(k) == rawDoors[k].y * width + rawDoors[k].x

\* no later linked entry of the list sits on the tile index of entry k
LastOnTile(k) ==
    \A j \in (k + 1)..Len(rawDoors) : ~(Linked(j) /\ TileOf(j) = TileOf(k))

\* C1 as stated: after loadDoors, for EVERY linked entry e, getDoor(e.x, e.y)
\* is the record built from e's first partner and from e itself.
C1_Original ==
    pc = "ready" =>
        \A k \in 1..Len(rawDoors) :
            Linked(k) => getDoor(rawDoors[k].x, rawDoors[k].y) = Some(ExpectedDoor(k))

\* C1 amended: after loadDoors, for every linked entry e that is the last
\* linked entry of the list on its tile index y*width + x, getDoor(e.x, e.y)
\* is the record built from e's first partner and from e itself.
C1_LastLinkedEntryWins ==
    pc = "ready" =>
        \A k \in 1..Len(rawDoors) :
            (Linked(k) /\ LastOnTile(k)) =>
                getDoor(rawDoors[k].x, rawDoors[k].y) = Some(ExpectedDoor(k))

\* a linked entry with two candidate partners at different places, resolved
\* to the first of them
C1_Witness ==
    /\ pc = "ready"
    /\ \E k \in 1..Len(rawDoors) :
          /\ Linked(k)
          /\ LastOnTile(k)
          /\ \E i, j \in 1..Len(rawDoors) :
                /\ i < j
                /\ rawDoors[i].id = rawDoors[k].destination
                /\ rawDoors[j].id = rawDoors[k].destination
                /\ rawDoors[i].x # rawDoors[j].x
                /\ getDoor(rawDoors[k].x, rawDoors[k].y)[1].x = rawDoors[i].x

LinkedTiles == {TileOf(k) : k \in {j \in 1..Len(rawDoors) : Linked(j)}}

\* C2: after loadDoors the door table has an entry at tile index i exactly
\* when some linked entry sits on i: an entry without destination makes no
\* door of its own, an unresolved entry is dropped, and the entries after a
\* dropped one are still linked.
C2_DoorTableIsLinkedTiles ==
    pc = "ready" =>
        /\ DOMAIN doors = LinkedTiles
        /\ \A x \in DoorXs, y \in DoorYs :
              isDoor(x, y) <=> (y * width + x) \in LinkedTiles
        /\ \A k \in 1..Len(rawDoors) :
              (rawDoors[k].destination = 0 /\ isDoor(rawDoors[k].x, rawDoors[k].y))
                  => \E j \in 1..Len(rawDoors) : j # k /\ Linked(j) /\ TileOf(j) = TileOf(k)

\* an unresolved entry was dropped and the entry after it was linked
C2_Witness ==
    /\ pc = "ready"
    /\ \E k \in 1..Len(rawDoors) :
          /\ rawDoors[k].destination # 0
          /\ ~Linked(k)
          /\ ~isDoor(rawDoors[k].x, rawDoors[k].y)
          /\ \E j \in (k + 1)..Len(rawDoors) :
                Linked(j) /\ isDoor(rawDoors[j].x, rawDoors[j].y)

----------------------------------------------------------------------------
(* Collision index and plateau *)

\* this.data[index]: the cell, or the falsy scalar when the array has none
tileAt(index) == IF index \in DOMAIN data THEN data[index] ELSE Scalar(0)

isOutOfBounds(x, y) == x < 0 \/ x >= width \/ y < 0 \/ y >= height

isCollisionIndex(index) == index \in collisions

\* an empty tile collides only when it is blocked too
isCollidingMutant(x, y) ==
    IF isOutOfBounds(x, y) THEN TRUE
    ELSE Falsy(tileAt(coordToIndex(x, y))) /\ isCollisionIndex(coordToIndex(x, y))

isColliding(x, y) ==
    IF isOutOfBounds(x, y) THEN TRUE
    ELSE Falsy(tileAt(coordToIndex(x, y))) \/ isCollisionIndex(coordToIndex(x, y))

getPlateauLevel(x, y) ==
    IF coordToIndex(x, y) \notin DOMAIN plateau THEN 0
    ELSE plateau[coordToIndex(x, y)]

----------------------------------------------------------------------------
(* Bitwise operators on words of WordBits bits, and the flip flags *)

RECURSIVE Pow2(_)
Pow2(n) == IF n = 0 THEN 1 ELSE 2 * Pow2(n - 1)

Word == Pow2(WordBits)

RECURSIVE andBits(_, _, _)
andBits(a, b, n) ==
    IF n = 0 THEN 0
    ELSE (a % 2) * (b % 2) + 2 * andBits(a \div 2, b \div 2, n - 1)

\* a & b: both operands are taken modulo the word; the sign the program
\* gives a result with the highest bit set is not modelled, only its bits
BitAnd(a, b) == andBits(a % Word, b % Word, WordBits)

\* ~a
BitNot(a) == Word - 1 - (a % Word)

\* a | b
BitOr(a, b) == BitNot(BitAnd(BitNot(a), BitNot(b)))

\* Modules.MapFlags: the three highest bits of the word, the horizontal
\* flag highest and the diagonal flag lowest, as in the TMX tile format the
\* source refers to (0x80000000, 0x40000000, 0x20000000 on 32 bits)
HORIZONTAL_FLAG == Pow2(WordBits - 1)

VERTICAL_FLAG == Pow2(WordBits - 2)

DIAGONAL_FLAG == Pow2(WordBits - 3)

isFlipped(tileId) == tileId > DIAGONAL_FLAG

\* the mask leaves the horizontal flag in the identifier
getFlippedTileMutant(tileId) ==
    [tileId |-> BitAnd(tileId, BitNot(BitOr(DIAGONAL_FLAG, VERTICAL_FLAG))),
     h      |-> BitAnd(tileId, HORIZONTAL_FLAG) # 0,
     v      |-> BitAnd(tileId, VERTICAL_FLAG) # 0,
     d      |-> BitAnd(tileId, DIAGONAL_FLAG) # 0]

getFlippedTile(tileId) ==
    [tileId |-> BitAnd(tileId, BitNot(BitOr(BitOr(DIAGONAL_FLAG, VERTICAL_FLAG),
                                            HORIZONTAL_FLAG))),
     h      |-> BitAnd(tileId, HORIZONTAL_FLAG) # 0,
     v      |-> BitAnd(tileId, VERTICAL_FLAG) # 0,
     d      |-> BitAnd(tileId, DIAGONAL_FLAG) # 0]

----------------------------------------------------------------------------
(* Tile iteration and the queries built on it *)

\* what a callback may return
ReturnValues == {"undefined", "false", "true"}

\* a callback is modelled by what its k-th invocation returns
Callbacks == [1..MaxStack -> ReturnValues]

\* a callback whose body returns nothing
Void == [k \in 1..MaxStack |-> "undefined"]

\* _.each(array, callback): the elements the callback is invoked with, in
\* order; lodash leaves the loop when an invocation returns exactly false
each(list, fn) ==
    LET stops == {k \in 1..Len(list) : fn[k] = "false"}
    IN  IF stops = {} THEN list
        ELSE SubSeq(list, 1, CHOOSE k \in stops : \A j \in stops : k <= j)

\* forEachTile(data, callback): the identifiers callback is invoked with
forEachTile(tile, fn) ==
    IF tile.isArray THEN each(tile.ids, fn) ELSE <<tile.id>>

\* only the last identifier the callback saw decides
isObjectMutant(tile) ==
    LET seen == forEachTile(tile, Void)
    IN  seen # <<>> /\ seen[Len(seen)] \in objects

isObject(tile) ==
    LET seen == forEachTile(tile, Void)
    IN  \E k \in 1..Len(seen) : seen[k] \in objects

getCursor(tile) ==
    LET seen == forEachTile(tile, Void)
        hits == {k \in 1..Len(seen) : seen[k] \in DOMAIN cursors}
    IN  IF hits = {} THEN ""
        ELSE cursors[seen[CHOOSE k \in hits : \A j \in hits : k >= j]]

\* a RegionTile element: the raw number, or the decoded RotatedTile
Raw(tileId) == [decoded |-> FALSE, tileId |-> tileId,
                h |-> FALSE, v |-> FALSE, d |-> FALSE]

Decoded(r) == [decoded |-> TRUE, tileId |-> r.tileId, h |-> r.h, v |-> r.v, d |-> r.d]

\* the body of the callback of getTileData
parseTile(tileId) ==
    IF isFlipped(tileId) THEN Decoded(getFlippedTile(tileId)) ELSE Raw(tileId)

getTileData(index) ==
    LET tile == tileAt(index)
        seen == forEachTile(tile, Void)
    IN  IF Falsy(tile) THEN [isArray |-> TRUE, items |-> <<>>]
        ELSE IF tile.isArray
             THEN [isArray |-> TRUE,
                   items |-> [k \in 1..Len(seen) |-> parseTile(seen[k])]]
             ELSE [isArray |-> FALSE, items |-> <<parseTile(seen[Len(seen)])>>]

RECURSIVE ascending(_)
ascending(S) ==
    IF S = {} THEN <<>>
    ELSE LET m == CHOOSE k \in S : \A j \in S : k <= j
         IN  <<m>> \o ascending(S \ {m})

\* forEachEntity(callback): the (position, key) pairs callback is invoked
\* with; the wrapping arrow function returns nothing, so every key is visited
forEachEntity(fn) ==
    LET keys == ascending(DOMAIN entities)
    IN  [k \in 1..Len(keys) |->
            [position |-> indexToCoord(keys[k]), key |-> entities[keys[k]]]]

----------------------------------------------------------------------------
(* The queries as operations: each records its arguments and its result *)

\* the coordinates and indexes queried: the map and one step beyond it
Xs == -1..width

Ys == -1..height

Indexes == 0..(width * height)

\* the identifiers of the tiles handed to the tile queries
StackIds == {3, 7, 9}

TileArgs ==
    {Scalar(n) : n \in StackIds} \cup {Stack(s) : s \in SeqsUpTo(StackIds, MaxStack)}

CoordToIndex ==
    \E x \in Xs, y \in Ys :
        /\ pc = "ready"
        /\ call' = [op |-> "coordToIndex", x |-> x, y |-> y]
        /\ ret' = coordToIndex(x, y)
        /\ UNCHANGED <<dataset, doors, pc>>

IndexToCoord ==
    \E i \in Indexes :
        /\ pc = "ready"
        /\ call' = [op |-> "indexToCoord", index |-> i]
        /\ ret' = indexToCoord(i)
        /\ UNCHANGED <<dataset, doors, pc>>

IsFlipped ==
    \E t \in 0..(Word - 1) :
        /\ pc = "ready"
        /\ call' = [op |-> "isFlipped", tileId |-> t]
        /\ ret' = isFlipped(t)
        /\ UNCHANGED <<dataset, doors, pc>>

IsDoor ==
    \E x \in Xs, y \in Ys :
        /\ pc = "ready"
        /\ call' = [op |-> "isDoor", x |-> x, y |-> y]
        /\ ret' = isDoor(x, y)
        /\ UNCHANGED <<dataset, doors, pc>>

IsOutOfBounds ==
    \E x \in Xs, y \in Ys :
        /\ pc = "ready"
        /\ call' = [op |-> "isOutOfBounds", x |-> x, y |-> y]
        /\ ret' = isOutOfBounds(x, y)
        /\ UNCHANGED <<dataset, doors, pc>>

IsCollisionIndex ==
    \E i \in Indexes :
        /\ pc = "ready"
        /\ call' = [op |-> "isCollisionIndex", index |-> i]
        /\ ret' = isCollisionIndex(i)
        /\ UNCHANGED <<dataset, doors, pc>>

IsColliding ==
    \E x \in Xs, y \in Ys :
        /\ pc = "ready"
        /\ call' = [op |-> "isColliding", x |-> x, y |-> y]
        /\ ret' = isColliding(x, y)
        /\ UNCHANGED <<dataset, doors, pc>>

IsObject ==
    \E t \in TileArgs :
        /\ pc = "ready"
        /\ call' = [op |-> "isObject", data |-> t]
        /\ ret' = isObject(t)
        /\ UNCHANGED <<dataset, doors, pc>>

GetDoor ==
    \E x \in Xs, y \in Ys :
        /\ pc = "ready"
        /\ call' = [op |-> "getDoor", x |-> x, y |-> y]
        /\ ret' = getDoor(x, y)
        /\ UNCHANGED <<dataset, doors, pc>>

GetCursor ==
    \E t \in TileArgs :
        /\ pc = "ready"
        /\ call' = [op |-> "getCursor", data |-> t]
        /\ ret' = getCursor(t)
        /\ UNCHANGED <<dataset, doors, pc>>

GetPlateauLevel ==
    \E x \in Xs, y \in Ys :
        /\ pc = "ready"
        /\ call' = [op |-> "getPlateauLevel", x |-> x, y |-> y]
        /\ ret' = getPlateauLevel(x, y)
        /\ UNCHANGED <<dataset, doors, pc>>

\* the decoded cell is written back into the tile array
GetTileDataWriteBack ==
    \E i \in Indexes :
        /\ pc = "ready"
        /\ call' = [op |-> "getTileData", index |-> i]
        /\ ret' = getTileData(i)
        /\ data' = [k \in DOMAIN data |->
                       IF k = i /\ ~data[k].isArray
                       THEN Scalar(getFlippedTile(data[k].id).tileId)
                       ELSE data[k]]
        /\ UNCHANGED <<width, height, collisions, entities, plateau, objects,
                       cursors, rawDoors, doors, pc>>

GetTileData ==
    \E i \in Indexes :
        /\ pc = "ready"
        /\ call' = [op |-> "getTileData", index |-> i]
        /\ ret' = getTileData(i)
        /\ UNCHANGED <<dataset, doors, pc>>

GetFlippedTile ==
    \E t \in 0..(Word - 1) :
        /\ pc = "ready"
        /\ call' = [op |-> "getFlippedTile", tileId |-> t]
        /\ ret' = getFlippedTile(t)
        /\ UNCHANGED <<dataset, doors, pc>>

ForEachTile ==
    \E t \in TileArgs, fn \in Callbacks :
        /\ pc = "ready"
        /\ call' = [op |-> "forEachTile", data |-> t, fn |-> fn]
        /\ ret' = forEachTile(t, fn)
        /\ UNCHANGED <<dataset, doors, pc>>

ForEachEntity ==
    \E fn \in Callbacks :
        /\ pc = "ready"
        /\ call' = [op |-> "forEachEntity", fn |-> fn]
        /\ ret' = forEachEntity(fn)
        /\ UNCHANGED <<dataset, doors, pc>>

\* what the query recorded in c returns in the current state
Evaluate(c) ==
    CASE c.op = "coordToIndex"     -> coordToIndex(c.x, c.y)
      [] c.op = "indexToCoord"     -> indexToCoord(c.index)
      [] c.op = "isFlipped"        -> isFlipped(c.tileId)
      [] c.op = "isDoor"           -> isDoor(c.x, c.y)
      [] c.op = "isOutOfBounds"    -> isOutOfBounds(c.x, c.y)
      [] c.op = "isCollisionIndex" -> isCollisionIndex(c.index)
      [] c.op = "isColliding"      -> isColliding(c.x, c.y)
      [] c.op = "isObject"         -> isObject(c.data)
      [] c.op = "getDoor"          -> getDoor(c.x, c.y)
      [] c.op = "getCursor"        -> getCursor(c.data)
      [] c.op = "getPlateauLevel"  -> getPlateauLevel(c.x, c.y)
      [] c.op = "getTileData"      -> getTileData(c.index)
      [] c.op = "getFlippedTile"   -> getFlippedTile(c.tileId)
      [] c.op = "forEachTile"      -> forEachTile(c.data, c.fn)
      [] c.op = "forEachEntity"    -> forEachEntity(c.fn)

----------------------------------------------------------------------------
(* The coordinate specification: maps of every size up to the bounds *)

InitCoord ==
    /\ width \in 1..MaxWidth
    /\ height \in 1..MaxHeight
    /\ data = [i \in 0..(width * height - 1) |-> Scalar(1)]
    /\ collisions = {}
    /\ entities = <<>>
    /\ plateau = <<>>
    /\ objects = {}
    /\ cursors = <<>>
    /\ rawDoors = <<>>
    /\ doors = <<>>
    /\ pc = "construct"
    /\ call = NoCall
    /\ ret = Undefined

NextCoord ==
    \/ Construct
    \/ CoordToIndex
    \/ IndexToCoord

SpecCoord == InitCoord /\ [][NextCoord]_vars

\* C5: coordToIndex and indexToCoord are mutually inverse on the map: the
\* index of an in-bounds coordinate converts back to that coordinate, and
\* the coordinate of an index below width*height is in bounds and converts
\* back to that index.
C5_CoordIndexInverse ==
    /\ (call.op = "coordToIndex" /\ ~isOutOfBounds(call.x, call.y)) =>
          /\ ret \in 0..(width * height - 1)
          /\ indexToCoord(ret) = [x |-> call.x, y |-> call.y]
    /\ (call.op = "indexToCoord" /\ call.index < width * height) =>
          /\ ~isOutOfBounds(ret.x, ret.y)
          /\ coordToIndex(ret.x, ret.y) = call.index

\* an index of the second row of a map that is wider than it is tall was
\* converted
C5_Witness ==
    /\ call.op = "indexToCoord"
    /\ width > height
    /\ call.index >= width
    /\ call.index < width * height
    /\ ret.y = 1

----------------------------------------------------------------------------
(* The collision specification: every tile array and blocked set of the    *)
(* maps of one or two tiles a side                                          *)

CollisionCells == {Scalar(0), Scalar(1), Stack(<<>>), Stack(<<1>>)}

InitCollision ==
    /\ width \in {1, 2}
    /\ height \in {1, 2}
    /\ data \in [0..(width * height - 1) -> CollisionCells]
    /\ collisions \in SUBSET (0..(width * height - 1))
    /\ entities = <<>>
    /\ plateau = <<>>
    /\ objects = {}
    /\ cursors = <<>>
    /\ rawDoors = <<>>
    /\ doors = <<>>
    /\ pc = "construct"
    /\ call = NoCall
    /\ ret = Undefined

NextCollision ==
    \/ Construct
    \/ IsOutOfBounds
    \/ IsCollisionIndex
    \/ IsColliding

SpecCollision == InitCollision /\ [][NextCollision]_vars

\* C4: isColliding(x, y) is true exactly when (x, y) is out of bounds, or
\* the cell at y*width + x is empty or absent, or that index is blocked; an
\* out-of-bounds coordinate is colliding, and so is an in-bounds tile with
\* no dataset entry, blocked or not.
C4_CollidingIffOutsideEmptyOrBlocked ==
    call.op = "isColliding" =>
        LET outside == call.x < 0 \/ call.x >= width \/ call.y < 0 \/ call.y >= height
            index   == call.y * width + call.x
            empty   == index \notin DOMAIN data \/ data[index] = Scalar(0)
        IN  /\ ret <=> (outside \/ empty \/ index \in collisions)
            /\ outside <=> isOutOfBounds(call.x, call.y)
            /\ outside => ret
            /\ (~outside /\ empty) => ret

\* an in-bounds tile that is filled and not blocked was found free, on a
\* map where another tile is blocked
C4_Witness ==
    /\ call.op = "isColliding"
    /\ ~isOutOfBounds(call.x, call.y)
    /\ collisions # {}
    /\ ret = FALSE

----------------------------------------------------------------------------
(* The bounds specification: a 2 x 2 map with at most one plateau tile and *)
(* at most one door, queried inside and outside its bounds                 *)

\* doors that lead to themselves, on the tiles of the map
BoundsDoors ==
    {RawDoor(1, x, y, 1, orientation, FALSE) :
        x \in {0, 1}, y \in {0, 1}, orientation \in {"", "u"}}

BoundsPlateaus ==
    {<<>>} \cup {[i \in {k} |-> level] : k \in 0..3, level \in {1, 2}}

InitBounds ==
    /\ width = 2
    /\ height = 2
    /\ data \in {[i \in 0..3 |-> Scalar(0)], [i \in 0..3 |-> Scalar(1)]}
    /\ collisions = {}
    /\ entities = <<>>
    /\ plateau \in BoundsPlateaus
    /\ objects = {}
    /\ cursors = <<>>
    /\ rawDoors \in SeqsUpTo(BoundsDoors, 1)
    /\ doors = <<>>
    /\ pc = "construct"
    /\ call = NoCall
    /\ ret = Undefined

NextBounds ==
    \/ Construct
    \/ IsColliding
    \/ IsDoor
    \/ GetDoor
    \/ GetPlateauLevel

SpecBounds == InitBounds /\ [][NextBounds]_vars

\* C3: for every coordinate outside the map bounds, isColliding is true,
\* isDoor is false, getDoor is undefined and getPlateauLevel is 0, whatever
\* doors and plateau levels the in-bounds tiles have.
C3_OutOfBoundsIsAbsent ==
    (call.op \in {"isColliding", "isDoor", "getDoor", "getPlateauLevel"}
        /\ (call.x < 0 \/ call.x >= width \/ call.y < 0 \/ call.y >= height)) =>
        /\ call.op = "isColliding" => ret = TRUE
        /\ call.op = "isDoor" => ret = FALSE
        /\ call.op = "getDoor" => ret = Undefined
        /\ call.op = "getPlateauLevel" => ret = 0

----------------------------------------------------------------------------
(* The flip specification: every identifier of the word is decoded, and  *)
(* the tile data specification: a one-tile map whose cell is any scalar or *)
(* stack over identifiers with and without flip flags                      *)

FlipIds ==
    {0, 1, DIAGONAL_FLAG, DIAGONAL_FLAG + 1, VERTICAL_FLAG + 1,
     HORIZONTAL_FLAG + 1, HORIZONTAL_FLAG + VERTICAL_FLAG + DIAGONAL_FLAG + 1}

Cells ==
    {Scalar(n) : n \in FlipIds} \cup {Stack(s) : s \in SeqsUpTo(FlipIds, MaxStack)}

InitFlip ==
    /\ width = 1
    /\ height = 1
    /\ data = [i \in {0} |-> Scalar(1)]
    /\ collisions = {}
    /\ entities = <<>>
    /\ plateau = <<>>
    /\ objects = {}
    /\ cursors = <<>>
    /\ rawDoors = <<>>
    /\ doors = <<>>
    /\ pc = "construct"
    /\ call = NoCall
    /\ ret = Undefined

NextFlip ==
    \/ Construct
    \/ IsFlipped
    \/ GetFlippedTile

SpecFlip == InitFlip /\ [][NextFlip]_vars

InitTileData ==
    /\ width = 1
    /\ height = 1
    /\ data \in [{0} -> Cells]
    /\ collisions = {}
    /\ entities = <<>>
    /\ plateau = <<>>
    /\ objects = {}
    /\ cursors = <<>>
    /\ rawDoors = <<>>
    /\ doors = <<>>
    /\ pc = "construct"
    /\ call = NoCall
    /\ ret = Undefined

NextTileData ==
    \/ Construct
    \/ GetTileData

SpecTileData == InitTileData /\ [][NextTileData]_vars

\* the flag bits of a raw identifier, by arithmetic on its digits
FlagOf(tileId, flag) == (tileId \div flag) % 2 = 1

BaseOf(tileId) == tileId % DIAGONAL_FLAG

Bit(b) == IF b THEN 1 ELSE 0

\* C6: for every raw identifier made of a base value below the lowest flag
\* and any combination of the three flags, getFlippedTile returns the base
\* as tileId and h, v, d true exactly for the flags set, and re-applying the
\* flags to the returned tileId gives the raw identifier back.
C6_FlipDecodeEncode ==
    call.op = "getFlippedTile" =>
        /\ ret.tileId = BaseOf(call.tileId)
        /\ ret.h = FlagOf(call.tileId, HORIZONTAL_FLAG)
        /\ ret.v = FlagOf(call.tileId, VERTICAL_FLAG)
        /\ ret.d = FlagOf(call.tileId, DIAGONAL_FLAG)
        /\ ret.tileId + Bit(ret.h) * HORIZONTAL_FLAG + Bit(ret.v) * VERTICAL_FLAG
              + Bit(ret.d) * DIAGONAL_FLAG = call.tileId

\* an identifier with a base and the horizontal and diagonal flags, and not
\* the vertical one, was decoded
C6_Witness ==
    /\ call.op = "getFlippedTile"
    /\ call.tileId = HORIZONTAL_FLAG + DIAGONAL_FLAG + 3
    /\ ret = [tileId |-> 3, h |-> TRUE, v |-> FALSE, d |-> TRUE]

\* the result the claim gives for one identifier of a cell
ClaimedTile(tileId) ==
    IF tileId < DIAGONAL_FLAG THEN Raw(tileId)
    ELSE Decoded([tileId |-> BaseOf(tileId),
                  h |-> FlagOf(tileId, HORIZONTAL_FLAG),
                  v |-> FlagOf(tileId, VERTICAL_FLAG),
                  d |-> FlagOf(tileId, DIAGONAL_FLAG)])

\* C7: getTileData(index) is the empty list when the cell is unset; a
\* scalar cell gives one scalar result and a list cell of n identifiers a
\* list of n results in the same order, where an identifier with no flag bit
\* is returned unchanged and one with a flag bit is returned decoded.
C7_TileDataDecodesEveryFlaggedId ==
    call.op = "getTileData" =>
        LET cell == IF call.index \in DOMAIN data THEN data[call.index] ELSE Scalar(0)
        IN  /\ cell = Scalar(0) => ret = [isArray |-> TRUE, items |-> <<>>]
            /\ (cell # Scalar(0) /\ ~cell.isArray) =>
                  ret = [isArray |-> FALSE, items |-> <<ClaimedTile(cell.id)>>]
            /\ cell.isArray =>
                  /\ ret.isArray
                  /\ Len(ret.items) = Len(cell.ids)
                  /\ \A k \in 1..Len(cell.ids) : ret.items[k] = ClaimedTile(cell.ids[k])

----------------------------------------------------------------------------
(* The iteration specification: every tile and every callback, and the   *)
(* object specification: every object set over the identifiers of the      *)
(* tiles queried                                                           *)

InitForEach ==
    /\ width = 1
    /\ height = 1
    /\ data = [i \in {0} |-> Scalar(1)]
    /\ collisions = {}
    /\ entities = <<>>
    /\ plateau = <<>>
    /\ objects = {}
    /\ cursors = <<>>
    /\ rawDoors = <<>>
    /\ doors = <<>>
    /\ pc = "construct"
    /\ call = NoCall
    /\ ret = Undefined

NextForEach ==
    \/ Construct
    \/ ForEachTile

SpecForEach == InitForEach /\ [][NextForEach]_vars

InitObject ==
    /\ width = 1
    /\ height = 1
    /\ data = [i \in {0} |-> Scalar(1)]
    /\ collisions = {}
    /\ entities = <<>>
    /\ plateau = <<>>
    /\ objects \in SUBSET StackIds
    /\ cursors = <<>>
    /\ rawDoors = <<>>
    /\ doors = <<>>
    /\ pc = "construct"
    /\ call = NoCall
    /\ ret = Undefined

NextObject ==
    \/ Construct
    \/ IsObject

SpecObject == InitObject /\ [][NextObject]_vars

\* C8: forEachTile(data, fn) invokes fn once with the identifier of a
\* scalar, and once per element of a list, in the list's order, for every
\* callback fn whatever fn returns.
C8_ForEachTileVisitsAll ==
    call.op = "forEachTile" =>
        ret = IF call.data.isArray THEN call.data.ids ELSE <<call.data.id>>

\* C9: isObject(data) is true exactly when at least one identifier of the
\* data, a single identifier or a stack, is in the object set.
C9_IsObjectIffSomeIdIsObject ==
    call.op = "isObject" =>
        LET ids == IF call.data.isArray
                   THEN {call.data.ids[k] : k \in 1..Len(call.data.ids)}
                   ELSE {call.data.id}
        IN  ret <=> (ids \cap objects # {})

\* a stack whose first identifier is an object and whose last is not was
\* found to be an object
C9_Witness ==
    /\ call.op = "isObject"
    /\ call.data.isArray
    /\ Len(call.data.ids) >= 2
    /\ call.data.ids[1] \in objects
    /\ call.data.ids[Len(call.data.ids)] \notin objects
    /\ ret = TRUE

----------------------------------------------------------------------------
(* The map specification: an empty world or a sample world, and every     *)
(* query on it                                                             *)

SampleData ==
    [i \in 0..3 |->
        CASE i = 0 -> Scalar(0)
          [] i = 1 -> Scalar(7)
          [] i = 2 -> Stack(<<3, DIAGONAL_FLAG + 9>>)
          [] i = 3 -> Scalar(HORIZONTAL_FLAG + 3)]

SampleDoors ==
    <<RawDoor(1, 0, 0, 2, "", TRUE), RawDoor(2, 1, 1, 0, "u", FALSE)>>

InitEmpty ==
    /\ data = [i \in 0..3 |-> Scalar(0)]
    /\ collisions = {}
    /\ entities = <<>>
    /\ plateau = <<>>
    /\ objects = {}
    /\ cursors = <<>>
    /\ rawDoors = <<>>

InitSample ==
    /\ data = SampleData
    /\ collisions = {1}
    /\ entities = [i \in {1, 3} |-> IF i = 1 THEN "rat" ELSE "guard"]
    /\ plateau = [i \in {2} |-> 1]
    /\ objects = {7}
    /\ cursors = [t \in {3, 9} |-> IF t = 3 THEN "hand" ELSE "talk"]
    /\ rawDoors = SampleDoors

Init ==
    /\ width = 2
    /\ height = 2
    /\ InitEmpty \/ InitSample
    /\ doors = <<>>
    /\ pc = "construct"
    /\ call = NoCall
    /\ ret = Undefined

Next ==
    \/ Construct
    \/ CoordToIndex
    \/ IndexToCoord
    \/ IsFlipped
    \/ IsDoor
    \/ IsOutOfBounds
    \/ IsCollisionIndex
    \/ IsColliding
    \/ IsObject
    \/ GetDoor
    \/ GetCursor
    \/ GetPlateauLevel
    \/ GetTileData
    \/ GetFlippedTile
    \/ ForEachTile
    \/ ForEachEntity

Spec == Init /\ [][Next]_vars

\* C10: after construction no query changes the tile array, the blocked
\* set, the door table or the plateau, object, cursor and entity mappings,
\* and in every state the query made last, made again with the same
\* arguments, returns what it returned.
C10_QueriesChangeNothing ==
    /\ [][pc = "ready" =>
             UNCHANGED <<width, height, data, collisions, doors, plateau, objects,
                         cursors, entities, rawDoors>>]_vars
    /\ [](call.op # "none" => ret = Evaluate(call))

\* a query that builds a new value from a flipped cell of the tile array
\* was made on the sample world
C10_Witness ==
    /\ pc = "ready"
    /\ call.op = "getTileData"
    /\ call.index \in DOMAIN data
    /\ data[call.index] = Scalar(HORIZONTAL_FLAG + 3)
    /\ ret = [isArray |-> FALSE,
              items |-> <<[decoded |-> TRUE, tileId |-> 3,
                           h |-> TRUE, v |-> FALSE, d |-> FALSE]>>]

====
